---- MODULE Spec2Model ----
(***************************************************************************)
(* Model of the anxious-scroll library core (src/src/lib.rs):             *)
(*   apply_anxious_scroll  - the velocity-adaptive sensitivity curve      *)
(*   process_events        - the per-batch event classifier               *)
(* and of the daemon's loop (src/src/main.rs):                             *)
(*   run_pass_through_loop - fetch, classify with its own                  *)
(*                           apply_anxious_scroll, emit                    *)
(*                                                                         *)
(* Time is counted in microseconds since the epoch.  f32 quantities are   *)
(* fixed-point numbers with Scale units per 1.0, tagged "num", "inf" or    *)
(* "nan"; finite magnitudes saturate at FixMax.  An event's i32 value is   *)
(* an integer, converted exactly by `as f32`.                              *)
(***************************************************************************)
EXTENDS Integers, Sequences, FiniteSets, TLC

\* ---------------------------------------------------------------- bounds
\* fixed-point units per 1.0
Scale == 1000
\* events (or direct calls) fed to one AnxiousState in a run
MaxEvents == 3

\* ------------------------------------------------------------- constants
I32Max == 2147483647
I32Min == -I32Max - 1
FixMax == I32Max
\* Duration::from_millis(1000)
FallbackMs == 1000
\* Duration::as_millis
MicrosPerMilli == 1000
\* evdev: EventType::KEY, EventType::RELATIVE
EV_KEY == 1
EV_REL == 2
\* evdev: RelativeAxisCode
REL_X == 0
REL_HWHEEL == 6
REL_WHEEL == 8
REL_WHEEL_HI_RES == 11
REL_HWHEEL_HI_RES == 12

\* ------------------------------------------------------------ parameters
\* AnxiousParams::default()
DefaultParams ==
    [base_sens |-> Scale, max_sens |-> 15 * Scale, ramp_up_rate |-> (3 * Scale) \div 10]
\* test_parameter_configurations: high_sens_params
HighSensParams ==
    [base_sens |-> Scale, max_sens |-> 30 * Scale, ramp_up_rate |-> (5 * Scale) \div 10]
\* test_parameter_configurations: low_sens_params
LowSensParams ==
    [base_sens |-> (5 * Scale) \div 10, max_sens |-> 5 * Scale, ramp_up_rate |-> Scale \div 10]
ParamSets == {DefaultParams, HighSensParams, LowSensParams}

\* ------------------------------------------------- fixed-point arithmetic
Abs(x) == IF x < 0 THEN -x ELSE x
Sign(x) == IF x < 0 THEN -1 ELSE IF x > 0 THEN 1 ELSE 0

Num(q) == [kind |-> "num", q |-> q]
PosInf == [kind |-> "inf", q |-> 1]
NegInf == [kind |-> "inf", q |-> -1]
NaN == [kind |-> "nan", q |-> 0]

\* saturating product and sum of naturals
SatMul(a, b) == IF a = 0 \/ b = 0 THEN 0 ELSE IF a > FixMax \div b THEN FixMax ELSE a * b
SatAdd(a, b) == IF a > FixMax - b THEN FixMax ELSE a + b

\* n / d as a fixed-point natural, for naturals n and d > 0
RatioQ(n, d) ==
    LET whole == n \div d
        part == ((n % d) * Scale) \div d
    IN  SatAdd(SatMul(whole, Scale), part)

\* exp(y / Scale) * Scale for a natural y: the series on y/8, squared three times
ExpQ(y) ==
    LET z == y \div 8
        t2 == SatMul(z, z) \div (2 * Scale)
        t3 == SatMul(t2, z) \div (3 * Scale)
        t4 == SatMul(t3, z) \div (4 * Scale)
        t5 == SatMul(t4, z) \div (5 * Scale)
        p == SatAdd(SatAdd(SatAdd(SatAdd(SatAdd(Scale, z), t2), t3), t4), t5)
        s1 == SatMul(p, p) \div Scale
        s2 == SatMul(s1, s1) \div Scale
    IN  SatMul(s2, s2) \div Scale

\* f32::exp
FExp(x) ==
    IF x.kind = "nan" THEN NaN
    ELSE IF x.kind = "inf" THEN (IF x.q > 0 THEN PosInf ELSE Num(0))
    ELSE IF x.q >= 0 THEN Num(ExpQ(x.q))
    ELSE Num((Scale * Scale) \div ExpQ(-x.q))

\* f32 product, sum and quotient of the shapes the curve uses
FMul(a, b) ==
    IF a.kind = "nan" \/ b.kind = "nan" THEN NaN
    ELSE IF a.kind = "inf" \/ b.kind = "inf"
         THEN (IF a.q = 0 \/ b.q = 0 THEN NaN
               ELSE IF Sign(a.q) = Sign(b.q) THEN PosInf ELSE NegInf)
    ELSE Num(Sign(a.q) * Sign(b.q) * (SatMul(Abs(a.q), Abs(b.q)) \div Scale))

FAdd(a, b) ==
    IF a.kind = "nan" \/ b.kind = "nan" THEN NaN
    ELSE IF a.kind = "inf" /\ b.kind = "inf" THEN (IF a.q = b.q THEN a ELSE NaN)
    ELSE IF a.kind = "inf" THEN a
    ELSE IF b.kind = "inf" THEN b
    ELSE IF a.q >= 0 /\ b.q >= 0 THEN Num(SatAdd(a.q, b.q))
    ELSE IF a.q < 0 /\ b.q < 0 THEN Num(-SatAdd(-a.q, -b.q))
    ELSE Num(a.q + b.q)

FDiv(a, b) ==
    IF a.kind = "nan" \/ b.kind = "nan" THEN NaN
    ELSE IF a.kind = "inf" THEN (IF b.kind = "inf" THEN NaN
                                 ELSE IF b.q < 0 THEN [a EXCEPT !.q = -a.q] ELSE a)
    ELSE IF b.kind = "inf" THEN Num(0)
    ELSE IF b.q = 0 THEN (IF a.q = 0 THEN NaN ELSE IF a.q > 0 THEN PosInf ELSE NegInf)
    ELSE Num(Sign(a.q) * Sign(b.q) * RatioQ(Abs(a.q), Abs(b.q)))

\* ------------------------------------------------------ the curve (4.1)
\* variant: Err also when the two instants are equal
DurationSinceStrict(timestamp, earlier) ==
    IF earlier < timestamp
    THEN [ok |-> TRUE, us |-> timestamp - earlier]
    ELSE [ok |-> FALSE, us |-> earlier - timestamp]

\* SystemTime::duration_since: Ok(self - earlier) when earlier <= self, else Err
DurationSince(timestamp, earlier) ==
    IF earlier <= timestamp
    THEN [ok |-> TRUE, us |-> timestamp - earlier]
    ELSE [ok |-> FALSE, us |-> earlier - timestamp]

\* variant: Err gives the error's own duration, |timestamp - prev_time|
ElapsedTimeAbs(timestamp, prev_time) ==
    [panic |-> FALSE, us |-> DurationSince(timestamp, prev_time).us]

\* variant: duration_since(..).unwrap()
ElapsedTimeUnwrap(timestamp, prev_time) ==
    LET r == DurationSince(timestamp, prev_time)
    IN  [panic |-> ~r.ok, us |-> r.us]

\* let elapsed_time = match timestamp.duration_since(prev_time) { Ok(d) => d, Err(_) => 1000 ms }
ElapsedTime(timestamp, prev_time) ==
    LET r == DurationSince(timestamp, prev_time)
    IN  IF r.ok THEN [panic |-> FALSE, us |-> r.us]
        ELSE [panic |-> FALSE, us |-> FallbackMs * MicrosPerMilli]

\* Duration::as_millis: whole milliseconds
AsMillis(us) == us \div MicrosPerMilli

\* variant: a zero elapsed time is counted as one millisecond
VelGuarded(value, ms) ==
    Num(RatioQ(Abs(value), IF ms = 0 THEN 1 ELSE ms))

\* let vel = value.abs() / elapsed_time.as_millis() as f32
Vel(value, ms) ==
    IF ms = 0 THEN (IF value = 0 THEN NaN ELSE PosInf)
    ELSE Num(RatioQ(Abs(value), ms))

\* let c = (max_sens / base_sens) - 1.0
CurveC(p) == FAdd(FDiv(Num(p.max_sens), Num(p.base_sens)), Num(-Scale))

\* variant: the exponent without its -1.0
SensPlus(vel, p) ==
    LET x == FMul(vel, Num(p.ramp_up_rate))
    IN  FDiv(Num(p.max_sens), FAdd(Num(Scale), FMul(CurveC(p), FExp(x))))

\* let sens = max_sens / (1.0 + c * (-1.0 * vel * ramp_up_rate).exp())
Sens(vel, p) ==
    LET x == FMul(FMul(Num(-Scale), vel), Num(p.ramp_up_rate))
    IN  FDiv(Num(p.max_sens), FAdd(Num(Scale), FMul(CurveC(p), FExp(x))))

\* |value * sens| truncated toward zero, at most I32Max, for a finite sens
ProductMag(value, sens) ==
    LET m == Abs(value)
        s == Abs(sens.q)
        low == ((m % Scale) * s) \div Scale
    IN  IF s = 0 THEN 0
        ELSE IF m \div Scale > I32Max \div s THEN I32Max
        ELSE SatAdd((m \div Scale) * s, low)

\* variant: NaN casts to the "integer indefinite" value
CastI32Indefinite(value, sens) ==
    IF sens.kind = "nan" \/ (sens.kind = "inf" /\ value = 0) THEN I32Min
    ELSE IF sens.kind = "inf"
         THEN (IF Sign(value) = Sign(sens.q) THEN I32Max ELSE I32Min)
    ELSE IF Sign(value) * Sign(sens.q) >= 0 THEN ProductMag(value, sens)
    ELSE IF ProductMag(value, sens) = I32Max THEN I32Min ELSE -ProductMag(value, sens)

\* variant: a product beyond i32 does not saturate but gives I32Min
CastI32Overflow(value, sens) ==
    IF sens.kind = "nan" \/ (sens.kind = "inf" /\ value = 0) THEN 0
    ELSE IF sens.kind = "inf" THEN I32Min
    ELSE IF ProductMag(value, sens) = I32Max THEN I32Min
    ELSE IF Sign(value) * Sign(sens.q) >= 0 THEN ProductMag(value, sens)
    ELSE -ProductMag(value, sens)

\* (value * sens) as i32: truncates toward zero, saturates, NaN gives 0
\* (a magnitude at I32Max stands for any f32 product of 2^31 or more)
CastI32(value, sens) ==
    IF sens.kind = "nan" \/ (sens.kind = "inf" /\ value = 0) THEN 0
    ELSE IF sens.kind = "inf"
         THEN (IF Sign(value) = Sign(sens.q) THEN I32Max ELSE I32Min)
    ELSE IF Sign(value) * Sign(sens.q) >= 0 THEN ProductMag(value, sens)
    ELSE IF ProductMag(value, sens) = I32Max THEN I32Min ELSE -ProductMag(value, sens)

\* lines 72-77 on an elapsed time in whole milliseconds
Transform(value, ms, p) == CastI32(value, Sens(Vel(value, ms), p))

\* variant: prev_time advances only when duration_since succeeded
ApplyKeepPrevOnFallback(value, timestamp, p, st) ==
    LET e == ElapsedTime(timestamp, st.prev_time)
    IN  [ret |-> Transform(value, AsMillis(e.us), p),
         state |-> IF DurationSince(timestamp, st.prev_time).ok
                   THEN [prev_time |-> timestamp] ELSE st,
         panic |-> FALSE]

\* variant: prev_time never moves back: it becomes the later of the two instants
ApplyMaxPrev(value, timestamp, p, st) ==
    LET e == ElapsedTime(timestamp, st.prev_time)
    IN  [ret |-> Transform(value, AsMillis(e.us), p),
         state |-> [prev_time |-> IF timestamp < st.prev_time THEN st.prev_time
                                  ELSE timestamp],
         panic |-> FALSE]

\* apply_anxious_scroll: the returned value, the state it leaves, whether it panicked
ApplyAnxiousScroll(value, timestamp, p, st) ==
    LET e == ElapsedTime(timestamp, st.prev_time)
    IN  IF e.panic
        THEN [ret |-> 0, state |-> st, panic |-> TRUE]
        ELSE [ret |-> Transform(value, AsMillis(e.us), p),
              state |-> [prev_time |-> timestamp],
              panic |-> FALSE]

\* ------------------------------------------------- the classifier (4.2)
Event(type, code, value, time) ==
    [type |-> type, code |-> code, value |-> value, time |-> time]

\* InputEvent::new(type, code, value): the time field is zero
NewEvent(type, code, value) == Event(type, code, value, 0)

\* variants: the code alone; the horizontal wheel's code
IsHiResCodeOnly(event) == event.code = REL_WHEEL_HI_RES
IsLoResCodeOnly(event) == event.code = REL_WHEEL
IsLoResHWheel(event) == event.type = EV_REL /\ event.code = REL_HWHEEL

IsHiRes(event) == event.type = EV_REL /\ event.code = REL_WHEEL_HI_RES
IsLoRes(event) == event.type = EV_REL /\ event.code = REL_WHEEL

\* variant: every event's timestamp is recorded as prev_time
ProcessOneStampAll(acc, event, p) ==
    IF IsHiRes(event)
    THEN LET r == ApplyAnxiousScroll(event.value, event.time, p, acc.state)
         IN  [acc EXCEPT !.out = Append(acc.out, NewEvent(event.type, event.code, r.ret)),
                          !.state = r.state]
    ELSE IF IsLoRes(event)
    THEN [acc EXCEPT !.state = [prev_time |-> event.time]]
    ELSE [acc EXCEPT !.out = Append(acc.out, event), !.state = [prev_time |-> event.time]]

\* one iteration of `for event in events`, on acc = [out, state, panic]
ProcessOne(acc, event, p) ==
    IF acc.panic THEN acc
    ELSE IF IsHiRes(event)
    THEN LET r == ApplyAnxiousScroll(event.value, event.time, p, acc.state)
         IN  IF r.panic
             THEN [acc EXCEPT !.state = r.state, !.panic = TRUE]
             ELSE [acc EXCEPT !.out = Append(acc.out, NewEvent(event.type, event.code, r.ret)),
                              !.state = r.state]
    ELSE IF IsLoRes(event)
    THEN acc
    ELSE [acc EXCEPT !.out = Append(acc.out, event)]

RECURSIVE ProcessLoop(_, _, _)
ProcessLoop(acc, events, p) ==
    IF events = <<>> THEN acc
    ELSE ProcessLoop(ProcessOne(acc, Head(events), p), Tail(events), p)

\* process_events: the returned batch, the state it leaves, whether it panicked
ProcessEventsFn(events, p, st) ==
    ProcessLoop([out |-> <<>>, state |-> st, panic |-> FALSE], events, p)

\* ------------------------------------------------ the daemon (main.rs)
\* let elapsed_time = timestamp.duration_since(anxious_state.prev_time).unwrap()
MainElapsedTime(timestamp, prev_time) ==
    LET r == DurationSince(timestamp, prev_time)
    IN  [panic |-> ~r.ok, us |-> r.us]

\* main.rs apply_anxious_scroll: a panic leaves before prev_time is assigned
MainApplyAnxiousScroll(value, timestamp, p, st) ==
    LET e == MainElapsedTime(timestamp, st.prev_time)
    IN  IF e.panic
        THEN [ret |-> 0, state |-> st, panic |-> TRUE]
        ELSE [ret |-> Transform(value, AsMillis(e.us), p),
              state |-> [prev_time |-> timestamp],
              panic |-> FALSE]

\* one iteration of the loop's `for event in events`, on acc = [out, state, panic]
MainProcessOne(acc, event, p) ==
    IF acc.panic THEN acc
    ELSE IF IsHiRes(event)
    THEN LET r == MainApplyAnxiousScroll(event.value, event.time, p, acc.state)
         IN  IF r.panic
             THEN [acc EXCEPT !.state = r.state, !.panic = TRUE]
             ELSE [acc EXCEPT !.out = Append(acc.out, NewEvent(event.type, event.code, r.ret)),
                              !.state = r.state]
    ELSE IF IsLoRes(event)
    THEN acc
    ELSE [acc EXCEPT !.out = Append(acc.out, event)]

RECURSIVE MainProcessLoop(_, _, _)
MainProcessLoop(acc, events, p) ==
    IF events = <<>> THEN acc
    ELSE MainProcessLoop(MainProcessOne(acc, Head(events), p), Tail(events), p)

\* the Ok(events) arm up to the emit: the batch built, the state left, a panic
MainBatch(events, p, st) ==
    MainProcessLoop([out |-> <<>>, state |-> st, panic |-> FALSE], events, p)

\* the loop after the Ok(events) arm: a panic ends the process; an empty batch is
\* not emitted; `virtual_device.emit(&event_batch)?` returns from the loop on Err
AfterBatch(d, r, emit_ok) ==
    LET e == [d EXCEPT !.last = "batch", !.emits_before = d.emits]
    IN  IF r.panic THEN [e EXCEPT !.pc = "panicked"]
        ELSE IF r.out = <<>> THEN e
        ELSE IF emit_ok THEN [e EXCEPT !.emits = d.emits + 1, !.emitted = r.out]
        ELSE [e EXCEPT !.pc = "failed"]

\* variant: the read error is returned from the loop
AfterReadErrorBail(d) ==
    [d EXCEPT !.last = "read_error", !.emits_before = d.emits, !.pc = "failed"]

\* the loop after the Err(e) arm: log, sleep 10 ms, go round again
AfterReadError(d) ==
    [d EXCEPT !.last = "read_error", !.emits_before = d.emits]

\* ------------------------------------------------------------ input sets
\* instants (microseconds) of the curve's calls: sub-millisecond, 10 ms, 50 ms,
\* 100 ms and exactly 1000 ms apart
CurveTimes == {0, 500, 10000, 50000, 100000, 1000000}
CurveValues == {0, 1, -1, 10, -10, 120, -120, 1073741824, -1073741824}

\* instants and events of the batches
EventTimes == {0, 500, 10000}
HiResEvents ==
    {Event(EV_REL, REL_WHEEL_HI_RES, 120, t) : t \in EventTimes}
    \cup {Event(EV_REL, REL_WHEEL_HI_RES, -10, t) : t \in {500, 10000}}
    \cup {Event(EV_REL, REL_WHEEL_HI_RES, 1073741824, 500)}
LoResEvents == {Event(EV_REL, REL_WHEEL, 1, t) : t \in {0, 10000}}
OtherEvents ==
    {Event(EV_REL, REL_X, 10, 0),
     Event(EV_KEY, REL_WHEEL_HI_RES, 1, 500), Event(EV_KEY, REL_WHEEL, 0, 10000),
     Event(EV_REL, REL_HWHEEL, -1, 10000), Event(EV_REL, REL_HWHEEL_HI_RES, 120, 500)}
Events == HiResEvents \cup LoResEvents \cup OtherEvents
\* events the daemon fetches
DaemonEvents ==
    HiResEvents \cup LoResEvents
    \cup {Event(EV_REL, REL_X, 10, 0), Event(EV_KEY, REL_WHEEL_HI_RES, 1, 500)}

RECURSIVE SeqsUpTo(_, _)
SeqsUpTo(S, n) ==
    IF n = 0 THEN {<<>>}
    ELSE LET shorter == SeqsUpTo(S, n - 1)
         IN  shorter \cup {Append(q, e) : q \in shorter, e \in S}

\* ----------------------------------------------------------------- state
VARIABLES
    params,      \* AnxiousParams of the run
    state,       \* AnxiousState: [prev_time]
    fed,         \* events and direct calls handled so far
    call,        \* the last call: its operation, arguments and the state it found
    result,      \* what the last call gave: ret, event_batch, panicked
    hist,        \* the initial prev_time; whether a hi-res event was handled, and the last one's timestamp
    daemon       \* run_pass_through_loop: where it is, its last iteration, its emit calls

vars == <<params, state, fed, call, result, hist, daemon>>

NoCall == [op |-> "none", value |-> 0, timestamp |-> 0, events |-> <<>>, prev_time |-> 0]
NoResult == [ret |-> 0, event_batch |-> <<>>, panicked |-> FALSE]
\* the loop before its first fetch
NoDaemon ==
    [pc |-> "loop", last |-> "none", emits |-> 0, emits_before |-> 0, emitted |-> <<>>]

\* the hi-res events of a batch, in order
HiResOf(events) == SelectSeq(events, IsHiRes)

\* hist after the hi-res events of a batch
Seen(h, events) ==
    LET hi == HiResOf(events)
    IN  IF hi = <<>> THEN h ELSE [h EXCEPT !.any = TRUE, !.last = hi[Len(hi)].time]

\* a caller hands process_events a batch
ProcessEvents(events) ==
    /\ fed + Len(events) <= MaxEvents
    /\ LET r == ProcessEventsFn(events, params, state)
       IN  /\ state' = r.state
           /\ result' = [ret |-> 0, event_batch |-> r.out, panicked |-> r.panic]
    /\ call' = [op |-> "process", value |-> 0, timestamp |-> 0, events |-> events,
                prev_time |-> state.prev_time]
    /\ fed' = fed + Len(events)
    /\ hist' = Seen(hist, events)
    /\ UNCHANGED <<params, daemon>>

\* a caller calls apply_anxious_scroll directly
Apply(value, timestamp) ==
    /\ fed < MaxEvents
    /\ LET r == ApplyAnxiousScroll(value, timestamp, params, state)
       IN  /\ state' = r.state
           /\ result' = [ret |-> r.ret, event_batch |-> <<>>, panicked |-> r.panic]
    /\ call' = [op |-> "apply", value |-> value, timestamp |-> timestamp, events |-> <<>>,
                prev_time |-> state.prev_time]
    /\ fed' = fed + 1
    /\ hist' = [hist EXCEPT !.any = TRUE, !.last = timestamp]
    /\ UNCHANGED <<params, daemon>>

\* the classifier, on the daemon's parameters
Init ==
    /\ params = DefaultParams
    /\ state \in {[prev_time |-> t] : t \in {500, 10000}}
    /\ fed = 0
    /\ call = NoCall
    /\ result = NoResult
    /\ hist = [init_time |-> state.prev_time, any |-> FALSE, last |-> 0]
    /\ daemon = NoDaemon

Next == \E events \in SeqsUpTo(Events, MaxEvents - fed) : ProcessEvents(events)

Spec == Init /\ [][Next]_vars

\* the curve alone, on every parameter set of the repository
InitCurve ==
    /\ params \in ParamSets
    /\ state \in {[prev_time |-> t] : t \in CurveTimes}
    /\ fed = 0
    /\ call = NoCall
    /\ result = NoResult
    /\ hist = [init_time |-> state.prev_time, any |-> FALSE, last |-> 0]
    /\ daemon = NoDaemon

NextCurve == \E value \in CurveValues, timestamp \in CurveTimes : Apply(value, timestamp)

SpecCurve == InitCurve /\ [][NextCurve]_vars

\* one round of the loop whose fetch_events gave Ok(events)
PassThroughBatch(events, emit_ok) ==
    /\ daemon.pc = "loop"
    /\ fed + Len(events) <= MaxEvents
    /\ LET r == MainBatch(events, params, state)
       IN  /\ state' = r.state
           /\ result' = [ret |-> 0, event_batch |-> r.out, panicked |-> r.panic]
           /\ daemon' = AfterBatch(daemon, r, emit_ok)
    /\ call' = [op |-> "fetch", value |-> 0, timestamp |-> 0, events |-> events,
                prev_time |-> state.prev_time]
    /\ fed' = fed + Len(events)
    /\ hist' = Seen(hist, events)
    /\ UNCHANGED params

\* one round of the loop whose fetch_events gave Err(e)
ReadError ==
    /\ daemon.pc = "loop"
    /\ daemon' = AfterReadError(daemon)
    /\ call' = [op |-> "fetch_err", value |-> 0, timestamp |-> 0, events |-> <<>>,
                prev_time |-> state.prev_time]
    /\ result' = NoResult
    /\ UNCHANGED <<params, state, fed, hist>>

\* the daemon: main's parameters and a state stamped at startup
InitDaemon == Init

NextDaemon ==
    \/ \E events \in SeqsUpTo(DaemonEvents, MaxEvents - fed), emit_ok \in BOOLEAN :
           PassThroughBatch(events, emit_ok)
    \/ ReadError

SpecDaemon == InitDaemon /\ [][NextDaemon]_vars

\* ======================================================================
\* Properties
\* ======================================================================
\* the three categories, by (type, code)
WheelHiRes(e) == e.type = 2 /\ e.code = 11
WheelLoRes(e) == e.type = 2 /\ e.code = 8

\* the positions of a batch that are retained, and the j-th of them
Kept(events) == {i \in 1..Len(events) : ~WheelLoRes(events[i])}
KeptAt(events, j) ==
    CHOOSE i \in Kept(events) : Cardinality({k \in Kept(events) : k < i}) = j - 1

\* prev_time as event i of a batch finds it: the timestamp of the nearest hi-res
\* event before it in the batch, else the state the call found
PrevAt(events, i, prev0) ==
    LET before == {k \in 1..(i - 1) : WheelHiRes(events[k])}
    IN  IF before = {} THEN prev0
        ELSE events[CHOOSE k \in before : \A m \in before : m <= k].time

\* a >= b in magnitude, for i32 results
MagGeq(a, b) == (IF a < 0 THEN a ELSE -a) <= (IF b < 0 THEN b ELSE -b)

\* the result of a direct call on a state with the given prev_time
Ret(value, timestamp, prev) ==
    ApplyAnxiousScroll(value, timestamp, params, [prev_time |-> prev]).ret

\* C1: process_events routes each event by (type, code): a hi-res wheel event is
\* emitted with its type and code and the value apply_anxious_scroll gives for its
\* value and timestamp on the state as that event finds it; a lo-res wheel event
\* is not emitted; every other event is emitted unchanged.
C1_Routing ==
    call.op = "process" =>
        LET ev == call.events
            out == result.event_batch
        IN  /\ Len(out) = Cardinality(Kept(ev))
            /\ \A j \in 1..Len(out) :
                   LET i == KeptAt(ev, j)
                   IN  IF WheelHiRes(ev[i])
                       THEN /\ out[j].type = ev[i].type
                            /\ out[j].code = ev[i].code
                            /\ out[j].value =
                                 Ret(ev[i].value, ev[i].time, PrevAt(ev, i, call.prev_time))
                       ELSE out[j] = ev[i]

\* the batch [hi_res(120), lo_res(1), motion_x(10)] gave two events
C1_Witness ==
    /\ call.op = "process"
    /\ Len(call.events) = 3
    /\ WheelHiRes(call.events[1]) /\ call.events[1].value = 120
    /\ WheelLoRes(call.events[2])
    /\ call.events[3].type = 2 /\ call.events[3].code = 0 /\ call.events[3].value = 10
    /\ Len(result.event_batch) = 2
    /\ result.event_batch[1].value > 120
    /\ result.event_batch[2] = call.events[3]

\* C2: the output keeps the retained events in input order: its length is the
\* input length less the number of lo-res wheel events, never more than the input
\* length, and its j-th event is the counterpart of the j-th retained input event.
C2_OrderAndLength ==
    call.op = "process" =>
        LET ev == call.events
            out == result.event_batch
            dropped == {i \in 1..Len(ev) : WheelLoRes(ev[i])}
        IN  /\ Len(out) = Len(ev) - Cardinality(dropped)
            /\ Len(out) <= Len(ev)
            /\ \A j \in 1..Len(out) :
                   /\ j <= Cardinality(Kept(ev))
                   /\ out[j].type = ev[KeptAt(ev, j)].type
                   /\ out[j].code = ev[KeptAt(ev, j)].code
                   /\ (~WheelHiRes(out[j]) => out[j] = ev[KeptAt(ev, j)])

\* a batch with a lo-res event between two retained events of different kinds
C2_Witness ==
    /\ call.op = "process"
    /\ Len(call.events) = 3
    /\ ~WheelLoRes(call.events[1]) /\ WheelLoRes(call.events[2]) /\ WheelHiRes(call.events[3])
    /\ call.events[1].code # call.events[3].code
    /\ Len(result.event_batch) = 2
    /\ result.event_batch[1] = call.events[1]
    /\ WheelHiRes(result.event_batch[2])

\* C3: a batch with no hi-res wheel event leaves state.prev_time unchanged,
\* whatever the timestamps of its events.
C3_StateIsolation ==
    (call.op = "process" /\ \A i \in 1..Len(call.events) : ~WheelHiRes(call.events[i]))
        => state.prev_time = call.prev_time

\* a batch of a dropped and a passed-through event, both stamped off prev_time
C3_Witness ==
    /\ call.op = "process"
    /\ Len(call.events) >= 2
    /\ \A i \in 1..Len(call.events) :
           ~WheelHiRes(call.events[i]) /\ call.events[i].time # call.prev_time
    /\ \E i \in 1..Len(call.events) : WheelLoRes(call.events[i])
    /\ \E i \in 1..Len(call.events) : ~WheelLoRes(call.events[i])
    /\ state.prev_time = call.prev_time

\* C4: after any sequence of process_events calls, state.prev_time is the
\* timestamp of the last hi-res wheel event handled in any batch (also when that
\* event took the fallback), and the initial value when there was none.
C4_PrevTimeIsLastHiRes ==
    state.prev_time = (IF hist.any THEN hist.last ELSE hist.init_time)

\* a second batch whose last hi-res event is stamped earlier than the one before it
C4_Witness ==
    /\ call.op = "process"
    /\ fed > Len(call.events)
    /\ Len(call.events) = 2
    /\ WheelHiRes(call.events[1]) /\ WheelHiRes(call.events[2])
    /\ call.events[2].time < call.events[1].time
    /\ state.prev_time = call.events[2].time
    /\ state.prev_time # hist.init_time

\* the calls of the input set whose elapsed time is exactly 1000 ms
ExplicitSecond == {tp \in CurveTimes \X CurveTimes : tp[1] - tp[2] = 1000000}

\* C5: a call with a timestamp strictly earlier than prev_time does not fail and
\* returns what a call with the same value and params returns whose timestamp is
\* exactly 1000 ms after its prev_time.
C5_OutOfOrderFallback ==
    (call.op = "apply" /\ call.timestamp < call.prev_time) =>
        /\ ~result.panicked
        /\ \A tp \in ExplicitSecond : result.ret = Ret(call.value, tp[1], tp[2])

\* prev_time = T + 100 ms, timestamp = T + 50 ms, value 120, default params
C5_Witness ==
    /\ call.op = "apply"
    /\ params = DefaultParams
    /\ call.prev_time = 100000 /\ call.timestamp = 50000 /\ call.value = 120
    /\ ExplicitSecond # {}
    /\ result.ret > 0 /\ result.ret < 2000

\* C6 as stated: a call with a timestamp equal to prev_time returns what a call
\* with an explicit elapsed time of 1000 ms returns.
C6_DuplicateTakesFallback ==
    (call.op = "apply" /\ call.timestamp = call.prev_time) =>
        \A tp \in ExplicitSecond : result.ret = Ret(call.value, tp[1], tp[2])

\* value * max_sens as an i32, for max_sens a whole number
TimesMaxSens(value) ==
    LET k == params.max_sens \div Scale
    IN  IF value > I32Max \div k THEN I32Max
        ELSE IF value < -(I32Max \div k) THEN I32Min
        ELSE value * k

\* C6 amended: a call with a timestamp equal to prev_time takes no fallback: its
\* elapsed time is zero, as for a timestamp less than a millisecond later, and it
\* returns value * max_sens truncated toward zero (saturated to i32).
C6_DuplicateIsZeroElapsed ==
    (call.op = "apply" /\ call.timestamp = call.prev_time) =>
        /\ result.ret = TimesMaxSens(call.value)
        /\ \A t \in CurveTimes :
               (call.prev_time < t /\ t - call.prev_time < 1000)
                   => result.ret = Ret(call.value, t, call.prev_time)

\* a duplicate timestamp with value 120 gave 120 * max_sens, not the slow result
C6_Witness ==
    /\ call.op = "apply"
    /\ call.timestamp = call.prev_time
    /\ call.value = 120
    /\ result.ret = 120 * (params.max_sens \div Scale)
    /\ \E tp \in ExplicitSecond : Ret(120, tp[1], tp[2]) < result.ret
    /\ \E t \in CurveTimes : call.prev_time < t /\ t - call.prev_time < 1000

\* C7: apply_anxious_scroll(0, t, p, s) returns 0 for every parameter set, state
\* and timestamp: earlier than, equal to, or any time after s.prev_time.
C7_ZeroValue ==
    (call.op = "apply" /\ call.value = 0) => result.ret = 0

\* value 0 with a timestamp equal to prev_time (velocity 0/0)
C7_Witness ==
    /\ call.op = "apply"
    /\ call.value = 0
    /\ call.timestamp = call.prev_time
    /\ Vel(call.value, 0) = NaN
    /\ result.ret = 0

\* C8 as stated: for every nonzero value the result has the sign of the value.
C8_SignEqual ==
    (call.op = "apply" /\ call.value # 0) => Sign(result.ret) = Sign(call.value)

\* C8 amended: the result never has the sign opposite to the value, and has the
\* sign of a nonzero value whenever base_sens >= 1.
C8_SignNotOpposite ==
    call.op = "apply" =>
        /\ (call.value > 0 => result.ret >= 0)
        /\ (call.value < 0 => result.ret <= 0)
        /\ (call.value # 0 /\ params.base_sens >= Scale)
               => Sign(result.ret) = Sign(call.value)

\* base_sens 0.5 truncating value -1 to 0 on a slow scroll, where a duplicate
\* timestamp gives a negative result
C8_Witness ==
    /\ call.op = "apply"
    /\ params.base_sens < Scale
    /\ call.value = -1
    /\ call.timestamp > call.prev_time
    /\ result.ret = 0
    /\ Ret(-1, call.prev_time, call.prev_time) < 0

\* |value * base_sens| truncated toward zero, negated
NegBaseline(value) ==
    LET m == IF value < 0 THEN -value ELSE value
    IN  -((m \div Scale) * params.base_sens + ((m % Scale) * params.base_sens) \div Scale)

\* C9: with value and params fixed, a call whose timestamp follows its prev_time
\* by a smaller gap never returns less magnitude than a call whose timestamp
\* follows its prev_time by a larger gap, and no call returns less magnitude than
\* |value * base_sens| truncated.
C9_Monotone ==
    call.op = "apply" =>
        /\ (IF result.ret < 0 THEN result.ret ELSE -result.ret) <= NegBaseline(call.value)
        /\ call.prev_time <= call.timestamp =>
               \A tp \in CurveTimes \X CurveTimes :
                   (tp[2] <= tp[1] /\ call.timestamp - call.prev_time <= tp[1] - tp[2])
                       => MagGeq(result.ret, Ret(call.value, tp[1], tp[2]))

\* a 10 ms gap returning strictly more than the 100 ms gap and than the baseline
C9_Witness ==
    /\ call.op = "apply"
    /\ call.value = 120
    /\ call.prev_time = 0 /\ call.timestamp = 10000
    /\ result.ret > Ret(120, 100000, 0)
    /\ Ret(120, 100000, 0) > Ret(120, 1000000, 0)
    /\ Ret(120, 1000000, 0) >= 120 * (params.base_sens \div Scale)

\* C10: process_events and the apply_anxious_scroll calls it makes never panic,
\* whatever the relation of a timestamp to prev_time, and every value they give is
\* an i32: the call returns a sequence of events.
C10_Total ==
    /\ ~result.panicked
    /\ result.ret \in I32Min..I32Max
    /\ call.op = "process" =>
           /\ DOMAIN result.event_batch = 1..Len(result.event_batch)
           /\ \A j \in 1..Len(result.event_batch) :
                  result.event_batch[j].value \in I32Min..I32Max
           /\ Cardinality({i \in 1..Len(call.events) : WheelHiRes(call.events[i])})
                  = Cardinality({j \in 1..Len(result.event_batch) :
                                     WheelHiRes(result.event_batch[j])})

\* a batch with hi-res events stamped earlier than, equal to and less than a
\* millisecond after the prev_time they find, one of them saturating
C10_Witness ==
    /\ call.op = "process"
    /\ ~result.panicked
    /\ Len(result.event_batch) = 3
    /\ \A i \in 1..3 : WheelHiRes(call.events[i])
    /\ call.events[1].time < call.prev_time
    /\ call.events[2].time > call.events[1].time
    /\ call.events[2].time - call.events[1].time < 1000
    /\ call.events[3].time = call.events[2].time
    /\ \E j \in 1..3 : result.event_batch[j].value = I32Max

\* C11 as stated: in run_pass_through_loop the per-batch transform never panics,
\* so after any fetched batch the loop can go on to the next one, also when a
\* hi-res event is stamped earlier than the stored prev_time.
C11_LoopNeverPanics ==
    call.op = "fetch" => (~result.panicked /\ daemon.pc # "panicked")

\* C12: a nonzero value with a timestamp less than one whole millisecond after
\* prev_time (elapsed 0 ms) does not trap: the velocity is infinite, the
\* sensitivity is max_sens, and the result is value * max_sens truncated toward
\* zero (saturated to i32), positive for a positive value.
C12_DegenerateElapsed ==
    (/\ call.op = "apply"
     /\ call.value # 0
     /\ call.prev_time < call.timestamp
     /\ call.timestamp - call.prev_time < 1000) =>
        /\ ~result.panicked
        /\ Sens(Vel(call.value, AsMillis(call.timestamp - call.prev_time)), params)
               = Num(params.max_sens)
        /\ result.ret = TimesMaxSens(call.value)
        /\ (call.value > 0 => result.ret > 0)

\* value 10 half a millisecond after prev_time gave 10 * max_sens, more than at 10 ms
C12_Witness ==
    /\ call.op = "apply"
    /\ call.value = 10
    /\ call.prev_time = 0 /\ call.timestamp = 500
    /\ result.ret = 10 * (params.max_sens \div Scale)
    /\ result.ret > Ret(10, 10000, 0)

\* an event that shares only its code, or only its type, with the wheel events
Foreign(e) ==
    \/ (e.type # 2 /\ e.code \in {8, 11})
    \/ (e.type = 2 /\ e.code \notin {8, 11})
NotForeign(e) == ~Foreign(e)

\* C13: the categories are decided by type and code together: an event with the
\* REL_WHEEL or REL_WHEEL_HI_RES code number but another type, and a RELATIVE
\* event with another code, is emitted unchanged in its place, and the state and
\* the other output events are what the batch without those events gives.
C13_TypeAndCode ==
    call.op = "process" =>
        LET ev == call.events
            out == result.event_batch
            alone == ProcessEventsFn(SelectSeq(ev, NotForeign), params,
                                     [prev_time |-> call.prev_time])
        IN  /\ \A i \in 1..Len(ev) :
                   Foreign(ev[i]) =>
                       LET j == Cardinality({k \in Kept(ev) : k <= i})
                       IN  i \in Kept(ev) /\ j <= Len(out) /\ out[j] = ev[i]
            /\ state = alone.state
            /\ SelectSeq(out, NotForeign) = alone.out

\* a KEY event with a wheel code and a horizontal-wheel event around a hi-res
\* wheel event of another timestamp: both emitted as they came
C13_Witness ==
    /\ call.op = "process"
    /\ Len(call.events) = 3
    /\ call.events[1].type = 1 /\ call.events[1].code \in {8, 11}
    /\ WheelHiRes(call.events[2])
    /\ call.events[3].type = 2 /\ call.events[3].code \in {6, 12}
    /\ call.events[2].time # call.events[1].time
    /\ call.events[2].time # call.events[3].time
    /\ Len(result.event_batch) = 3
    /\ result.event_batch[1] = call.events[1]
    /\ result.event_batch[3] = call.events[3]
    /\ state.prev_time = call.events[2].time
    /\ state.prev_time # call.prev_time

\* the positions of the hi-res wheel events of a batch
HiResAt(events) == {i \in 1..Len(events) : WheelHiRes(events[i])}

\* event g of a batch is a backward jump, and the hi-res events from g to i are
\* stamped in strictly increasing order
RunAfterGlitch(events, g, i, prev0) ==
    /\ g \in HiResAt(events) /\ i \in HiResAt(events) /\ g < i
    /\ events[g].time < PrevAt(events, g, prev0)
    /\ \A a, b \in HiResAt(events) :
           (g <= a /\ a < b /\ b <= i) => events[a].time < events[b].time

\* C14: after a hi-res wheel event stamped earlier than the prev_time it found
\* (the fallback), every following hi-res event of a run of strictly increasing
\* timestamps is given the value of the normal path, its elapsed time measured
\* from its predecessor's timestamp, also when it is stamped earlier than the
\* prev_time before the jump.
C14_GlitchRecovery ==
    call.op = "process" =>
        LET ev == call.events
            out == result.event_batch
        IN  \A g, i \in 1..Len(ev) :
                RunAfterGlitch(ev, g, i, call.prev_time) =>
                    LET j == Cardinality({k \in Kept(ev) : k <= i})
                        pred == PrevAt(ev, i, call.prev_time)
                    IN  /\ j <= Len(out)
                        /\ pred < ev[i].time
                        /\ out[j].value
                             = Transform(ev[i].value, (ev[i].time - pred) \div 1000, params)

\* prev_time 10 ms; events stamped 0 (the jump), 0.5 ms (still before the old
\* prev_time) and 10 ms: the second and third took the normal path
C14_Witness ==
    /\ call.op = "process"
    /\ call.prev_time = 10000
    /\ Len(call.events) = 3
    /\ \A i \in 1..3 : WheelHiRes(call.events[i]) /\ call.events[i].value = 120
    /\ call.events[1].time = 0 /\ call.events[2].time = 500 /\ call.events[3].time = 10000
    /\ Len(result.event_batch) = 3
    /\ result.event_batch[1].value = Transform(120, 1000, params)
    /\ result.event_batch[2].value = Transform(120, 0, params)
    /\ result.event_batch[3].value = Transform(120, 9, params)
    /\ result.event_batch[2].value > result.event_batch[3].value
    /\ result.event_batch[3].value > result.event_batch[1].value

====
